---- MODULE Spec2Model ----
(***************************************************************************)
(* Model of the car cost-of-ownership calculator (car-cost.ts and its      *)
(* sibling script car-cost): the piecewise-linear interpolator             *)
(* interpolatePoints and the projection calculateCostOfOwnership.          *)
(*                                                                         *)
(* JavaScript numbers are modelled as exact rationals extended with the    *)
(* IEEE special values NaN and +/-Infinity, so that a division by zero is  *)
(* a value of the model as it is a value of the program.  Rounding of      *)
(* IEEE doubles is not modelled.                                           *)
(***************************************************************************)
EXTENDS Integers, Sequences, FiniteSets, TLC

VARIABLES
    points,     \* the caller's GraphPoint[] handed to interpolatePoints
    length,     \* the length argument of interpolatePoints
    output,     \* the array interpolatePoints returned
    icalls,     \* number of interpolatePoints calls made on `points` (0 or 1)
    given,      \* the points as the caller wrote them, before any call
    variant,    \* which of the two scripts runs
    settings,   \* the caller's Settings object
    input,      \* the Settings as the caller built them, before any call
    result,     \* what calculateCostOfOwnership returned
    calls,      \* number of calculateCostOfOwnership calls made
    catalog,    \* the rows of the car_models table
    lastAdd,    \* per (brand, name, trim), the cost of the most recent add (ghost)
    run         \* the last command run and how it ended

vars == <<points, length, output, icalls, given, variant, settings, input, result, calls,
          catalog, lastAdd, run>>

ivars == <<points, length, output, icalls, given>>
pvars == <<variant, settings, input, result, calls>>
cvars == <<catalog, lastAdd, run>>

-----------------------------------------------------------------------------
(* Bounds of the model.                                                    *)

MaxYear == 3
MaxCost == 2
MaxPoints == 3
MaxCalls == 2
MaxLife == 3
MaxLoanYears == 2
MaxCostUnits == 2
MaxDownUnits == 1
MaxPermit == 1
MaxPayments == 12

MaxLength == MaxYear + 1

-----------------------------------------------------------------------------
(* JavaScript numbers: [k, n, d] with k = "fin" (the rational n/d, d > 0,  *)
(* in lowest terms), "inf" (n = 1 or -1) or "nan".                         *)

Abs(x) == IF x < 0 THEN -x ELSE x

RECURSIVE GCD(_, _)
GCD(a, b) == IF b = 0 THEN a ELSE GCD(b, a % b)

Fin(n, d) ==
    LET g == GCD(Abs(n), Abs(d))
        s == IF d < 0 THEN -1 ELSE 1
    IN  [k |-> "fin", n |-> (s * n) \div g, d |-> (s * d) \div g]

NaN == [k |-> "nan", n |-> 0, d |-> 0]
Inf(s) == [k |-> "inf", n |-> s, d |-> 0]
Num(i) == [k |-> "fin", n |-> i, d |-> 1]

IsFinite(a) == a.k = "fin"
IsZero(a) == a.k = "fin" /\ a.n = 0
Sign(a) == IF a.n < 0 THEN -1 ELSE IF a.n > 0 THEN 1 ELSE 0

Neg(a) == IF a.k = "nan" THEN NaN ELSE [a EXCEPT !.n = -a.n]

Add(a, b) ==
    IF a.k = "nan" \/ b.k = "nan" THEN NaN
    ELSE IF a.k = "inf" /\ b.k = "inf" THEN (IF a.n = b.n THEN a ELSE NaN)
    ELSE IF a.k = "inf" THEN a
    ELSE IF b.k = "inf" THEN b
    ELSE LET g == GCD(a.d, b.d)
         IN  Fin(a.n * (b.d \div g) + b.n * (a.d \div g), (a.d \div g) * b.d)

Sub(a, b) == Add(a, Neg(b))

Mul(a, b) ==
    IF a.k = "nan" \/ b.k = "nan" THEN NaN
    ELSE IF a.k = "inf" \/ b.k = "inf"
         THEN (IF IsZero(a) \/ IsZero(b) THEN NaN ELSE Inf(Sign(a) * Sign(b)))
    ELSE LET g1 == GCD(Abs(a.n), b.d)
             g2 == GCD(Abs(b.n), a.d)
         IN  Fin((a.n \div g1) * (b.n \div g2), (a.d \div g2) * (b.d \div g1))

Div(a, b) ==
    IF a.k = "nan" \/ b.k = "nan" THEN NaN
    ELSE IF b.k = "inf" THEN (IF a.k = "inf" THEN NaN ELSE Num(0))
    ELSE IF IsZero(b) THEN (IF IsZero(a) THEN NaN ELSE Inf(Sign(a)))
    ELSE IF a.k = "inf" THEN Inf(Sign(a) * Sign(b))
    ELSE Mul(a, Fin(b.d, b.n))

\* Math.pow(b, e) for an integer e >= 0; Math.pow(x, 0) is 1 for every x.
RECURSIVE Pow(_, _)
Pow(b, e) ==
    IF e = 0 THEN Num(1)
    ELSE LET half == Pow(b, e \div 2)
             square == Mul(half, half)
         IN  IF e % 2 = 0 THEN square ELSE Mul(square, b)

\* reduce((acc, v) => acc + v, 0) over the first n entries of s.
RECURSIVE SumTo(_, _)
SumTo(s, n) == IF n = 0 THEN Num(0) ELSE Add(SumTo(s, n - 1), s[n])

SumSeq(s) == SumTo(s, Len(s))

-----------------------------------------------------------------------------
(* The interpolator.  A GraphPoint is <<year, cost>>.                       *)

PYear(p) == p[1]
PCost(p) == p[2]

\* lerp with the difference taken the other way round.
lerpDiffReversed(start, end, perc) ==
    LET diff == Sub(end, start)
    IN  Sub(start, Mul(diff, perc))

lerp(start, end, perc) ==
    LET diff == Sub(start, end)
    IN  Sub(start, Mul(diff, perc))

\* A sort that is not stable: a point goes before the points of the same year.
RECURSIVE InsertByYearTiesFirst(_, _)
InsertByYearTiesFirst(sorted, p) ==
    IF Len(sorted) = 0 THEN <<p>>
    ELSE IF PYear(sorted[Len(sorted)]) < PYear(p) THEN Append(sorted, p)
    ELSE Append(InsertByYearTiesFirst(SubSeq(sorted, 1, Len(sorted) - 1), p),
                sorted[Len(sorted)])

\* Array.prototype.sort with the comparator a[0] - b[0]: a stable sort by year.
RECURSIVE InsertByYear(_, _)
InsertByYear(sorted, p) ==
    IF Len(sorted) = 0 THEN <<p>>
    ELSE IF PYear(sorted[Len(sorted)]) <= PYear(p) THEN Append(sorted, p)
    ELSE Append(InsertByYear(SubSeq(sorted, 1, Len(sorted) - 1), p), sorted[Len(sorted)])

RECURSIVE SortByYear(_)
SortByYear(ps) ==
    IF Len(ps) = 0 THEN <<>>
    ELSE InsertByYear(SortByYear(SubSeq(ps, 1, Len(ps) - 1)), ps[Len(ps)])

\* The inner loop: the first i with points[i].year <= year < points[i+1].year,
\* or 0 when the loop ends without a break.
BracketIndex(sorted, year) ==
    LET hits == {i \in 1..(Len(sorted) - 1) :
                    PYear(sorted[i]) <= year /\ PYear(sorted[i + 1]) > year}
    IN  IF hits = {} THEN 0 ELSE CHOOSE i \in hits : \A j \in hits : i <= j

\* The fallback taken as the last two points.
SurroundingPointsLastTwo(sorted, year) ==
    LET i == BracketIndex(sorted, year)
    IN  IF i = 0 THEN <<sorted[Len(sorted) - 1], sorted[Len(sorted)]>>
        ELSE <<sorted[i], sorted[i + 1]>>

\* The fallback taken as the first two points.
SurroundingPointsFirstTwo(sorted, year) ==
    LET i == BracketIndex(sorted, year)
    IN  IF i = 0 THEN <<sorted[1], sorted[2]>>
        ELSE <<sorted[i], sorted[i + 1]>>

\* The points left and right hold when the inner loop is over.
SurroundingPoints(sorted, year) ==
    LET i == BracketIndex(sorted, year)
    IN  IF i = 0 THEN <<sorted[1], sorted[Len(sorted)]>>
        ELSE <<sorted[i], sorted[i + 1]>>

\* The percentage measured from the right point instead of the left.
InterpolateYearFromRight(sorted, year) ==
    LET lr == SurroundingPoints(sorted, year)
        left == lr[1]
        right == lr[2]
    IN  IF PYear(left) = PYear(right) THEN Num(PCost(left))
        ELSE LET percentage == Div(Num(PYear(right) - year), Num(PYear(right) - PYear(left)))
             IN  lerp(Num(PCost(left)), Num(PCost(right)), percentage)

\* One iteration of the outer loop without the `left[0] === right[0]` test.
InterpolateYearNoGuard(sorted, year) ==
    LET lr == SurroundingPoints(sorted, year)
        left == lr[1]
        right == lr[2]
        percentage == Div(Num(year - PYear(left)), Num(PYear(right) - PYear(left)))
    IN  lerp(Num(PCost(left)), Num(PCost(right)), percentage)

\* One iteration of the outer loop: the value pushed for `year`.
InterpolateYear(sorted, year) ==
    LET lr == SurroundingPoints(sorted, year)
        left == lr[1]
        right == lr[2]
    IN  IF PYear(left) = PYear(right) THEN Num(PCost(left))
        ELSE LET percentage == Div(Num(year - PYear(left)), Num(PYear(right) - PYear(left)))
             IN  lerp(Num(PCost(left)), Num(PCost(right)), percentage)

\* interpolatePoints with Array(length) left unfilled for an empty curve.
interpolatePointsNoFill(ps, len) ==
    IF Len(ps) = 0 THEN [y \in 1..len |-> NaN]
    ELSE IF Len(ps) = 1 THEN [y \in 1..len |-> Num(PCost(ps[1]))]
    ELSE LET sorted == SortByYear(ps)
         IN  [y \in 1..len |-> InterpolateYear(sorted, y - 1)]

\* interpolatePoints filling with points[0][0], the year, for a single point.
interpolatePointsFillYear(ps, len) ==
    IF Len(ps) = 0 THEN [y \in 1..len |-> Num(0)]
    ELSE IF Len(ps) = 1 THEN [y \in 1..len |-> Num(PYear(ps[1]))]
    ELSE LET sorted == SortByYear(ps)
         IN  [y \in 1..len |-> InterpolateYear(sorted, y - 1)]

\* interpolatePoints with the loop running while year <= length.
interpolatePointsOneMore(ps, len) ==
    IF Len(ps) = 0 THEN [y \in 1..len |-> Num(0)]
    ELSE IF Len(ps) = 1 THEN [y \in 1..len |-> Num(PCost(ps[1]))]
    ELSE LET sorted == SortByYear(ps)
         IN  [y \in 1..(len + 1) |-> InterpolateYear(sorted, y - 1)]

\* interpolatePoints without the sort: the points are walked in the caller's order.
interpolatePointsUnsorted(ps, len) ==
    IF Len(ps) = 0 THEN [y \in 1..len |-> Num(0)]
    ELSE IF Len(ps) = 1 THEN [y \in 1..len |-> Num(PCost(ps[1]))]
    ELSE [y \in 1..len |-> InterpolateYear(ps, y - 1)]

\* The array interpolatePoints returns, for length >= 0.
interpolatePoints(ps, len) ==
    IF Len(ps) = 0 THEN [y \in 1..len |-> Num(0)]
    ELSE IF Len(ps) = 1 THEN [y \in 1..len |-> Num(PCost(ps[1]))]
    ELSE LET sorted == SortByYear(ps)
         IN  [y \in 1..len |-> InterpolateYear(sorted, y - 1)]

\* The caller's array after the call: points.sort sorts it in place.
PointsAfter(ps) == IF Len(ps) <= 1 THEN ps ELSE SortByYear(ps)

-----------------------------------------------------------------------------
(* The projection.  A Settings object holds each field as <<>> (undefined)  *)
(* or <<v>>.                                                                *)

Undefined == <<>>
Some(v) == <<v>>
IsSet(o) == Len(o) = 1

\* A destructuring default: `field = dflt`.
Default(o, dflt) == IF IsSet(o) THEN o[1] ELSE dflt

DefaultLoanYears == 4
DefaultExpectedLife == 20
DefaultPermitCost == 2643
DefaultInsuranceStart == 14000
DefaultInsuranceEnd == 6500
DefaultLoanRate == Fin(3, 100)

\* The default insurance curve ending at the default expectedLife, whatever the
\* expectedLife supplied.
DefaultInsurancePointsFixed(expectedLife) ==
    << <<0, DefaultInsuranceStart>>, <<DefaultExpectedLife - 1, DefaultInsuranceEnd>> >>

DefaultInsurancePoints(expectedLife) ==
    << <<0, DefaultInsuranceStart>>, <<expectedLife - 1, DefaultInsuranceEnd>> >>

DefaultMaintenancePoints == << <<0, 1000>>, <<5, 2000>>, <<10, 3500>>, <<15, 5000>> >>

calculateLoanPayments(principal, rate, years) ==
    LET monthlyRate == Div(rate, Num(12))
        numPayments == years * 12
        growth == Pow(Add(Num(1), monthlyRate), numPayments)
        monthlyPayment == Div(Mul(Mul(principal, monthlyRate), growth), Sub(growth, Num(1)))
    IN  Mul(Mul(monthlyPayment, Num(12)), Num(years))

\* The loan is charged in the years up to and including loanYears.
ChargesLoanInclusive(i, loanYears) == i <= loanYears

\* `if (i < loanYears)`, i the 0-based year index.
ChargesLoan(i, loanYears) == i < loanYears

\* The body of the map callback with the loan payment added in every year.
YearCostLoanEveryYear(insuranceCosts, yearlyPermitCost, maintenanceCosts, yearlyLoanPayment, loanYears, i) ==
    Add(Add(Add(insuranceCosts[i + 1], Num(yearlyPermitCost)), maintenanceCosts[i + 1]),
        yearlyLoanPayment)

\* The body of the map callback: the cost of year i (0-based).
YearCost(insuranceCosts, yearlyPermitCost, maintenanceCosts, yearlyLoanPayment, loanYears, i) ==
    LET yearCost == Add(Add(insuranceCosts[i + 1], Num(yearlyPermitCost)), maintenanceCosts[i + 1])
    IN  IF ChargesLoan(i, loanYears) THEN Add(yearCost, yearlyLoanPayment) ELSE yearCost

\* The total as each script computes it: car-cost.ts sums the years, the script
\* car-cost adds the down payment to that sum.
Total(v, yearlyPayments, downPayment) ==
    IF v = "car-cost.ts" THEN SumSeq(yearlyPayments)
    ELSE Add(SumSeq(yearlyPayments), Num(downPayment))

\* yearlyLoanPayment as calculateCostOfOwnership derives it.
YearlyLoanPayment(cost, downPayment, loanRate, loanYears) ==
    LET principal == Num(cost - downPayment)
        totalLoanPayment == calculateLoanPayments(principal, loanRate, loanYears)
    IN  Div(totalLoanPayment, Num(loanYears))

calculateCostOfOwnership(v, s) ==
    LET cost == Default(s.cost, 0)
        downPayment == Default(s.downPayment, 0)
        loanRate == Default(s.loanRate, DefaultLoanRate)
        loanYears == Default(s.loanYears, DefaultLoanYears)
        expectedLife == Default(s.expectedLife, DefaultExpectedLife)
        insurancePoints == Default(s.insurancePoints, DefaultInsurancePoints(expectedLife))
        yearlyPermitCost == Default(s.yearlyPermitCost, DefaultPermitCost)
        maintenancePoints == Default(s.maintenancePoints, DefaultMaintenancePoints)
        yearlyLoanPayment == YearlyLoanPayment(cost, downPayment, loanRate, loanYears)
        insuranceCosts == interpolatePoints(insurancePoints, expectedLife)
        maintenanceCosts == interpolatePoints(maintenancePoints, expectedLife)
        yearlyPayments ==
            [y \in 1..expectedLife |->
                YearCost(insuranceCosts, yearlyPermitCost, maintenanceCosts,
                         yearlyLoanPayment, loanYears, y - 1)]
    IN  [yearlyBreakdown |-> yearlyPayments,
         total |-> Total(v, yearlyPayments, downPayment)]

\* The caller's Settings after the call: interpolatePoints has sorted, in place,
\* the curves the caller supplied (a default curve is a fresh array).
SettingsAfter(s) ==
    [s EXCEPT !.insurancePoints = IF IsSet(@) THEN Some(PointsAfter(@[1])) ELSE @,
              !.maintenancePoints = IF IsSet(@) THEN Some(PointsAfter(@[1])) ELSE @]

-----------------------------------------------------------------------------
(* Inputs.                                                                 *)

\* Control points: a year in 0..MaxYear, a cost of 0 or MaxCost.
Points == (0..MaxYear) \X {0, MaxCost}

RECURSIVE SeqsUpTo(_, _)
SeqsUpTo(S, n) ==
    IF n = 0 THEN {<<>>}
    ELSE LET shorter == SeqsUpTo(S, n - 1)
         IN  shorter \cup {Append(s, x) : s \in {t \in shorter : Len(t) = n - 1}, x \in S}

Curves == SeqsUpTo(Points, MaxPoints)

Opt(S) == {Undefined} \cup {Some(v) : v \in S}

\* Purchase amounts are multiples of 2^12 - 1, for which twelve monthly payments at
\* a monthly rate of 1 are whole numbers.
LoanUnit == 2^12 - 1

\* The loan rates tried for a loan term: the annuity factor (1 + rate/12)^(12 * years)
\* is evaluated exactly, so a non-zero rate is tried only up to MaxPayments payments
\* (and the default rate only where no payment is due).
LoanRates(loanYears) ==
    LET years == Default(loanYears, DefaultLoanYears)
    IN  IF years = 0 THEN Opt({Num(0), Num(12)})
        ELSE IF years * 12 <= MaxPayments THEN {Some(Num(0)), Some(Num(12))}
        ELSE {Some(Num(0))}

\* The curves tried for the insurance stream: a single point, and three points out
\* of year order with a duplicated year.
InsuranceCurves == { << <<1, 5>> >>, << <<2, 4>>, <<0, 6>>, <<2, 1>> >> }

\* The curve tried for the maintenance stream: two points out of year order.
MaintenanceCurves == { << <<3, 9>>, <<1, 3>> >> }

NoSettings ==
    [cost |-> Undefined, downPayment |-> Undefined, loanRate |-> Undefined,
     loanYears |-> Undefined, expectedLife |-> Undefined, insurancePoints |-> Undefined,
     yearlyPermitCost |-> Undefined, maintenancePoints |-> Undefined]

NoResult == [yearlyBreakdown |-> <<>>, total |-> Num(0)]

\* The (brand, name, trim) the commands are tried with: two trims of one car.
Identities == {<<"Toyota", "RAV4", "XLE">>, <<"Toyota", "RAV4", "LE">>}

\* No command has run.
NoRun ==
    [cmd |-> "none", status |-> "none", args |-> <<>>, replaced |-> Undefined,
     model |-> Undefined, warnings |-> {}, settings |-> NoSettings, result |-> NoResult]

InitCliIdle ==
    /\ catalog = {}
    /\ lastAdd = [identity \in Identities |-> Undefined]
    /\ run = NoRun

-----------------------------------------------------------------------------
(* The interpolator called on its own.                                     *)

InitProjectIdle ==
    /\ variant = "car-cost.ts"
    /\ settings = NoSettings
    /\ input = NoSettings
    /\ result = NoResult
    /\ calls = 0

InitInterp ==
    /\ points \in Curves
    /\ given = points
    /\ length \in 0..MaxLength
    /\ output = <<>>
    /\ icalls = 0
    /\ InitProjectIdle
    /\ InitCliIdle

InterpolateCall ==
    /\ icalls = 0
    /\ output' = interpolatePoints(points, length)
    /\ points' = PointsAfter(points)
    /\ icalls' = icalls + 1
    /\ UNCHANGED <<length, given>>
    /\ UNCHANGED pvars
    /\ UNCHANGED cvars

NextInterp == InterpolateCall

SpecInterp == InitInterp /\ [][NextInterp]_vars

-----------------------------------------------------------------------------
(* The projection called on a Settings object.                             *)

InitInterpIdle ==
    /\ points = <<>>
    /\ given = <<>>
    /\ length = 0
    /\ output = <<>>
    /\ icalls = 0

Init ==
    /\ InitInterpIdle
    /\ variant \in {"car-cost.ts", "car-cost"}
    /\ \E cost \in Opt({k * LoanUnit : k \in 1..MaxCostUnits}),
          downPayment \in Opt({k * LoanUnit : k \in 1..MaxDownUnits}),
          loanYears \in Opt(0..MaxLoanYears),
          expectedLife \in Opt(0..MaxLife),
          yearlyPermitCost \in Opt(1..MaxPermit),
          insurancePoints \in Opt(InsuranceCurves),
          maintenancePoints \in Opt(MaintenanceCurves) :
          \E loanRate \in LoanRates(loanYears) :
              settings = [cost |-> cost, downPayment |-> downPayment, loanRate |-> loanRate,
                          loanYears |-> loanYears, expectedLife |-> expectedLife,
                          insurancePoints |-> insurancePoints,
                          yearlyPermitCost |-> yearlyPermitCost,
                          maintenancePoints |-> maintenancePoints]
    /\ input = settings
    /\ result = NoResult
    /\ calls = 0
    /\ InitCliIdle

Project ==
    /\ calls < MaxCalls
    /\ result' = calculateCostOfOwnership(variant, settings)
    /\ settings' = SettingsAfter(settings)
    /\ calls' = calls + 1
    /\ UNCHANGED <<variant, input>>
    /\ UNCHANGED ivars
    /\ UNCHANGED cvars

Next == Project

Spec == Init /\ [][Next]_vars

-----------------------------------------------------------------------------
(* The command line: `add` and `simulate` over the car_models table.  A    *)
(* row is a record with the columns of the table, a NULL column being <<>>. *)
(* An option of the command line is <<>> when absent.  Numeric option      *)
(* strings are given as the integer parseInt makes of them.                *)

Identity(row) == <<row.brand, row.name, row.trim>>

\* A text handed to JSON.parse, by what JSON.parse makes of it: a list of
\* [year, cost] pairs, a JSON value that is not a list (the number 5, say), or
\* no JSON at all.
PairsText(curve) == [json |-> "pairs", pts |-> curve]
ScalarText == [json |-> "scalar", pts |-> <<>>]
InvalidText == [json |-> "invalid", pts |-> <<>>]

\* JSON.parse: throws on a text that is not JSON, returns the value otherwise; a
\* value is an array of points or it is not an array.
JSONparse(text) ==
    [threw |-> text.json = "invalid",
     value |-> [isArray |-> text.json = "pairs", pts |-> text.pts]]

\* INSERT ... ON CONFLICT(brand, name, trim) DO NOTHING: the stored row is kept.
addCarModelKeepFirst(v, cat, car) ==
    IF \E row \in cat : Identity(row) = Identity(car) THEN cat
    ELSE cat \cup {[id |-> Cardinality(cat) + 1, brand |-> car.brand, name |-> car.name,
                    trim |-> car.trim, cost |-> car.cost,
                    yearly_permit_cost |-> car.yearly_permit_cost,
                    insurance_points |-> car.insurance_points,
                    maintenance_points |-> car.maintenance_points]}

\* INSERT ... ON CONFLICT(brand, name, trim) DO UPDATE SET ...: car-cost.ts updates
\* the cost, the script car-cost the cost and the three optional columns.  A new
\* row takes the next AUTOINCREMENT id (no row is ever deleted).
addCarModel(v, cat, car) ==
    IF \E row \in cat : Identity(row) = Identity(car)
    THEN {IF Identity(row) # Identity(car) THEN row
          ELSE IF v = "car-cost.ts" THEN [row EXCEPT !.cost = car.cost]
          ELSE [row EXCEPT !.cost = car.cost,
                           !.yearly_permit_cost = car.yearly_permit_cost,
                           !.insurance_points = car.insurance_points,
                           !.maintenance_points = car.maintenance_points] : row \in cat}
    ELSE cat \cup {[id |-> Cardinality(cat) + 1, brand |-> car.brand, name |-> car.name,
                    trim |-> car.trim, cost |-> car.cost,
                    yearly_permit_cost |-> car.yearly_permit_cost,
                    insurance_points |-> car.insurance_points,
                    maintenance_points |-> car.maintenance_points]}

\* SELECT * FROM car_models WHERE id = ?: the rows with that id (none or one).
getCarModel(cat, id) == {row \in cat : row.id = id}

\* commandAdd: the table after the command and how the command ended, "done" or
\* "exit" for process.exit(1).  car-cost.ts knows the four required options only.
commandAdd(v, cat, a) ==
    LET extras == v = "car-cost"
        rejected ==
            \/ ~IsSet(a.cost)
            \/ extras /\ IsSet(a.insurance) /\ JSONparse(a.insurance[1]).threw
            \/ extras /\ IsSet(a.maintenance) /\ JSONparse(a.maintenance[1]).threw
        car == [brand |-> a.identity[1], name |-> a.identity[2], trim |-> a.identity[3],
                cost |-> Default(a.cost, 0),
                yearly_permit_cost |-> IF extras THEN a.permitCost ELSE Undefined,
                insurance_points |-> IF extras THEN a.insurance ELSE Undefined,
                maintenance_points |-> IF extras THEN a.maintenance ELSE Undefined]
    IN  IF rejected THEN [status |-> "exit", catalog |-> cat]
        ELSE [status |-> "done", catalog |-> addCarModel(v, cat, car)]

\* The stored value taking precedence over the option of the command line.
OverrideStoredFirst(stored, option) == IF IsSet(stored) THEN stored ELSE option

\* `if (parsed.values.x) settings.x = ...`: an option given on the command line
\* replaces what settings holds.
Override(stored, option) == IF IsSet(option) THEN option ELSE stored

\* `if (model.x_points) { try { settings.xPoints = JSON.parse(model.x_points) }
\* catch (e) { warning } }`: the value settings takes, and whether the warning
\* is shown.
LoadCurve(column) ==
    IF ~IsSet(column) THEN [value |-> Undefined, warned |-> FALSE]
    ELSE LET parsed == JSONparse(column[1])
         IN  IF parsed.threw THEN [value |-> Undefined, warned |-> TRUE]
             ELSE [value |-> Some(parsed.value), warned |-> FALSE]

\* The Settings commandSimulate builds from a stored row: car-cost.ts takes the
\* cost; the script car-cost also the permit cost, unless 0 or NULL, and the curves.
LoadModel(v, model) ==
    IF v = "car-cost.ts" THEN [NoSettings EXCEPT !.cost = Some(model.cost)]
    ELSE [NoSettings EXCEPT
              !.cost = Some(model.cost),
              !.yearlyPermitCost =
                  IF Default(model.yearly_permit_cost, 0) # 0
                  THEN model.yearly_permit_cost ELSE Undefined,
              !.insurancePoints = LoadCurve(model.insurance_points).value,
              !.maintenancePoints = LoadCurve(model.maintenance_points).value]

\* The streams a warning is shown for while the row is loaded.
LoadWarnings(v, model) ==
    IF v = "car-cost.ts" THEN {}
    ELSE {stream \in {"insurance", "maintenance"} :
             LoadCurve(IF stream = "insurance" THEN model.insurance_points
                       ELSE model.maintenance_points).warned}

\* JSON.parse of a --insurance or --maintenance option that is valid JSON.
CurveOption(option) ==
    IF IsSet(option) THEN Some(JSONparse(option[1]).value) ELSE Undefined

\* interpolatePoints on a value that is not an array: `points.sort` is not a
\* function, a TypeError.
ThrowsTypeError(s) ==
    \/ IsSet(s.insurancePoints) /\ ~s.insurancePoints[1].isArray
    \/ IsSet(s.maintenancePoints) /\ ~s.maintenancePoints[1].isArray

\* The Settings as calculateCostOfOwnership reads them, the curves being arrays.
EngineSettings(s) ==
    [s EXCEPT !.insurancePoints = IF IsSet(@) THEN Some(@[1].pts) ELSE @,
              !.maintenancePoints = IF IsSet(@) THEN Some(@[1].pts) ELSE @]

\* commandSimulate: how the command ended ("done"; "exit" for process.exit(1);
\* "aborted" for an exception that reaches main().catch), the row loaded, the
\* warnings shown, the Settings built and the projection.
commandSimulate(v, cat, o) ==
    LET modelId == Default(o.id, 0)
        rows == getCarModel(cat, modelId)
        model == IF modelId # 0 /\ rows # {} THEN Some(CHOOSE row \in rows : TRUE)
                 ELSE Undefined
        stop == [status |-> "exit", model |-> model, warnings |-> {},
                 settings |-> NoSettings, result |-> NoResult]
    IN  IF modelId # 0 /\ rows = {} THEN stop
        ELSE IF modelId = 0 /\ ~IsSet(o.cost) THEN stop
        ELSE LET loaded == IF modelId # 0 THEN LoadModel(v, model[1])
                           ELSE [NoSettings EXCEPT !.cost = o.cost]
                 warnings == IF modelId # 0 THEN LoadWarnings(v, model[1]) ELSE {}
                 badOption ==
                     \/ IsSet(o.insurance) /\ JSONparse(o.insurance[1]).threw
                     \/ IsSet(o.maintenance) /\ JSONparse(o.maintenance[1]).threw
                 s == [cost |-> loaded.cost,
                       downPayment |-> Override(loaded.downPayment, o.downPayment),
                       loanRate |-> Override(loaded.loanRate, o.loanRate),
                       loanYears |-> Override(loaded.loanYears, o.loanYears),
                       expectedLife |-> Override(loaded.expectedLife, o.expectedLife),
                       insurancePoints |->
                           Override(loaded.insurancePoints, CurveOption(o.insurance)),
                       yearlyPermitCost |-> Override(loaded.yearlyPermitCost, o.permitCost),
                       maintenancePoints |->
                           Override(loaded.maintenancePoints, CurveOption(o.maintenance))]
             IN  IF badOption THEN [stop EXCEPT !.warnings = warnings]
                 ELSE IF ThrowsTypeError(s)
                      THEN [status |-> "aborted", model |-> model, warnings |-> warnings,
                            settings |-> s, result |-> NoResult]
                 ELSE [status |-> "done", model |-> model, warnings |-> warnings,
                       settings |-> s,
                       result |-> calculateCostOfOwnership(v, EngineSettings(s))]

\* The curves stored with a model and the curves given to simulate.
StoredInsuranceCurve == << <<2, 4>>, <<0, 6>> >>
StoredMaintenanceCurve == << <<1, 3>> >>
OptionInsuranceCurve == << <<0, 1>>, <<1, 3>> >>
OptionMaintenanceCurve == << <<3, 9>>, <<1, 3>> >>

InitCli ==
    /\ InitInterpIdle
    /\ variant \in {"car-cost.ts", "car-cost"}
    /\ settings = NoSettings
    /\ input = NoSettings
    /\ result = NoResult
    /\ calls = 0
    /\ InitCliIdle

\* The optional values an add is tried with: none; a permit cost and two curves; a
\* permit cost of 0 and two texts that are JSON but no lists.
ModelExtras ==
    {[permitCost |-> Undefined, insurance |-> Undefined, maintenance |-> Undefined],
     [permitCost |-> Some(MaxPermit), insurance |-> Some(PairsText(StoredInsuranceCurve)),
      maintenance |-> Some(PairsText(StoredMaintenanceCurve))],
     [permitCost |-> Some(0), insurance |-> Some(ScalarText),
      maintenance |-> Some(ScalarText)]}

\* The options `add` is tried with: an identity, a cost of 1..MaxCostUnits units
\* and optional values (none for car-cost.ts); and two command lines to be
\* refused, one without a cost and one with an insurance text that is not JSON.
AddArgs(v) ==
    {[identity |-> identity, cost |-> Some(k * LoanUnit), permitCost |-> x.permitCost,
      insurance |-> x.insurance, maintenance |-> x.maintenance] :
        identity \in Identities, k \in 1..MaxCostUnits,
        x \in IF v = "car-cost.ts" THEN {y \in ModelExtras : ~IsSet(y.permitCost)}
              ELSE ModelExtras}
    \cup
    {[identity |-> identity, cost |-> Undefined, permitCost |-> Undefined,
      insurance |-> Undefined, maintenance |-> Undefined] : identity \in Identities}
    \cup
    {[identity |-> identity, cost |-> Some(LoanUnit), permitCost |-> Undefined,
      insurance |-> Some(InvalidText), maintenance |-> Undefined] :
        identity \in {i \in Identities : v = "car-cost"}}

\* The options `simulate` is tried with, no loan and a life of MaxLife - 1 years
\* in each: a model id or a cost or neither, and none of --permitCost, --insurance,
\* --maintenance, or all three, or the first (as 0), or the second.
SimulateArgs ==
    {[id |-> id, cost |-> cost, downPayment |-> Undefined, loanRate |-> Undefined,
      loanYears |-> Some(0), expectedLife |-> Some(MaxLife - 1),
      permitCost |-> x.permitCost, insurance |-> x.insurance,
      maintenance |-> x.maintenance] :
        id \in Opt(1..Cardinality(Identities)),
        cost \in Opt({LoanUnit}),
        x \in {[permitCost |-> Undefined, insurance |-> Undefined, maintenance |-> Undefined],
               [permitCost |-> Some(MaxPermit + 1),
                insurance |-> Some(PairsText(OptionInsuranceCurve)),
                maintenance |-> Some(PairsText(OptionMaintenanceCurve))],
               [permitCost |-> Some(0), insurance |-> Undefined, maintenance |-> Undefined],
               [permitCost |-> Undefined,
                insurance |-> Some(PairsText(OptionInsuranceCurve)),
                maintenance |-> Undefined]}}

\* One run of `add`.  The ghost lastAdd keeps, per identity, the cost of the most
\* recent add that was carried out.
RunAdd ==
    \E a \in AddArgs(variant) :
        /\ LET outcome == commandAdd(variant, catalog, a)
               before == {row \in catalog : Identity(row) = a.identity}
           IN  /\ catalog' = outcome.catalog
               /\ lastAdd' = IF outcome.status = "done"
                             THEN [lastAdd EXCEPT ![a.identity] = a.cost] ELSE lastAdd
               /\ run' = [NoRun EXCEPT
                              !.cmd = "add",
                              !.status = outcome.status,
                              !.args = IF outcome.status = "done" THEN a.identity ELSE <<>>,
                              !.replaced = IF outcome.status = "done" /\ before # {}
                                           THEN Some((CHOOSE row \in before : TRUE).cost)
                                           ELSE Undefined]
        /\ UNCHANGED ivars
        /\ UNCHANGED pvars

\* One run of `simulate`.
RunSimulate ==
    \E o \in SimulateArgs :
        /\ IsSet(o.id) => ~IsSet(o.cost)
        /\ LET outcome == commandSimulate(variant, catalog, o)
           IN  run' = [cmd |-> "simulate", status |-> outcome.status, args |-> o,
                       replaced |-> Undefined, model |-> outcome.model,
                       warnings |-> outcome.warnings, settings |-> outcome.settings,
                       result |-> outcome.result]
        /\ UNCHANGED <<catalog, lastAdd>>
        /\ UNCHANGED ivars
        /\ UNCHANGED pvars

NextCli == RunAdd \/ RunSimulate

SpecCli == InitCli /\ [][NextCli]_vars

-----------------------------------------------------------------------------
(* Properties of the interpolator.                                         *)

Years(ps) == {PYear(ps[i]) : i \in 1..Len(ps)}
DistinctYears(ps) == Cardinality(Years(ps)) = Len(ps)
SortedByYear(ps) == \A i \in 1..(Len(ps) - 1) : PYear(ps[i]) <= PYear(ps[i + 1])
Count(ps, p) == Cardinality({i \in 1..Len(ps) : ps[i] = p})
SamePoints(ps, qs) == Len(ps) = Len(qs) /\ \A p \in Points : Count(ps, p) = Count(qs, p)
MaxOf(S) == CHOOSE x \in S : \A y \in S : y <= x
MinOf(S) == CHOOSE x \in S : \A y \in S : x <= y
Called == icalls >= 1

\* The value on the straight line through left and right at year y, as the
\* specification writes it: left.cost + t * (right.cost - left.cost).
OnLine(left, right, y) ==
    IF PYear(left) = PYear(right) THEN Num(PCost(left))
    ELSE Add(Num(PCost(left)),
             Mul(Div(Num(y - PYear(left)), Num(PYear(right) - PYear(left))),
                 Num(PCost(right) - PCost(left))))

\* C4: after a call on a curve of two or more points, the caller's array is the
\* given points sorted by year, and for every year y in [0, length) that the first
\* consecutive pair left, right with left.year <= y < right.year brackets, the
\* output at y is left.cost + ((y - left.year) / (right.year - left.year)) *
\* (right.cost - left.cost).
C4_BracketInterpolation ==
    (Called /\ Len(given) >= 2) =>
        /\ SortedByYear(points)
        /\ SamePoints(points, given)
        /\ \A y \in 0..(length - 1) : \A i \in 1..(Len(points) - 1) :
              ( /\ PYear(points[i]) <= y
                /\ y < PYear(points[i + 1])
                /\ \A j \in 1..(i - 1) : ~(PYear(points[j]) <= y /\ y < PYear(points[j + 1])) )
              => output[y + 1] =
                    Add(Num(PCost(points[i])),
                        Mul(Div(Num(y - PYear(points[i])),
                                Num(PYear(points[i + 1]) - PYear(points[i]))),
                            Num(PCost(points[i + 1]) - PCost(points[i]))))

\* C4 witness: a call on three points given out of year order has produced a value
\* strictly between two control points (a proper fraction).
C4_Witness ==
    /\ Called
    /\ Len(given) = 3
    /\ ~SortedByYear(given)
    /\ \E y \in 0..(length - 1) :
          /\ BracketIndex(points, y) # 0
          /\ output[y + 1].k = "fin"
          /\ output[y + 1].d > 1

\* C5 as stated, on curves whose years are pairwise distinct: after a call on a
\* curve of two or more points, the output at every year y at or beyond the
\* largest control-point year lies on the line through the last two sorted
\* points, whatever the number of points.
C5_LastTwoPoints ==
    (Called /\ Len(given) >= 2 /\ DistinctYears(given)) =>
        \A y \in 0..(length - 1) :
            y >= MaxOf(Years(given)) =>
                output[y + 1] = OnLine(points[Len(points) - 1], points[Len(points)], y)

\* C5 amended: after a call on a curve of two or more points, the output at every
\* year y at or beyond the largest control-point year lies on the line through
\* the first and the last sorted points (the first point's cost when their years
\* are equal); for a two-point curve that line is the final segment.
C5_FirstAndLastBeyond ==
    (Called /\ Len(given) >= 2) =>
        \A y \in 0..(length - 1) :
            y >= MaxOf(Years(given)) =>
                /\ output[y + 1] = OnLine(points[1], points[Len(points)], y)
                /\ Len(given) = 2 =>
                      output[y + 1] = OnLine(points[Len(points) - 1], points[Len(points)], y)

\* C5 witness: a call on three points with distinct years has produced a value
\* beyond the largest year that is on the line through the first and the last
\* point and off the line through the last two.
C5_Witness ==
    /\ Called
    /\ Len(given) = 3
    /\ DistinctYears(given)
    /\ \E y \in 0..(length - 1) :
          /\ y > MaxOf(Years(given))
          /\ output[y + 1] = OnLine(points[1], points[3], y)
          /\ output[y + 1] # OnLine(points[2], points[3], y)

\* C6 as stated, on curves whose years are pairwise distinct: after a call on a
\* curve of two or more points, the output at every year y below the smallest
\* control-point year lies on the line through the first two sorted points.
C6_FirstTwoPoints ==
    (Called /\ Len(given) >= 2 /\ DistinctYears(given)) =>
        \A y \in 0..(length - 1) :
            y < MinOf(Years(given)) =>
                output[y + 1] = OnLine(points[1], points[2], y)

\* C6 amended: after a call on a curve of two or more points, the output at every
\* year y below the smallest control-point year lies on the line through the
\* first and the last sorted points (the first point's cost when their years are
\* equal); for a two-point curve that line is the first segment.
C6_FirstAndLastBelow ==
    (Called /\ Len(given) >= 2) =>
        \A y \in 0..(length - 1) :
            y < MinOf(Years(given)) =>
                /\ output[y + 1] = OnLine(points[1], points[Len(points)], y)
                /\ Len(given) = 2 => output[y + 1] = OnLine(points[1], points[2], y)

\* C6 witness: a call on three points with distinct years, all above 0, has
\* produced a value at year 0 that is on the line through the first and the last
\* point and off the line through the first two.
C6_Witness ==
    /\ Called
    /\ Len(given) = 3
    /\ DistinctYears(given)
    /\ MinOf(Years(given)) > 0
    /\ length > 0
    /\ output[1] = OnLine(points[1], points[3], 0)
    /\ output[1] # OnLine(points[1], points[2], 0)

C8_EmptyCurveZeros ==
    (Called /\ Len(given) = 0) =>
        /\ Len(output) = length
        /\ \A y \in 1..length : output[y] = Num(0)

\* C8 witness: a call on the empty curve with a positive length has returned.
C8_Witness == Called /\ Len(given) = 0 /\ length = MaxLength /\ Len(output) = MaxLength

\* C9: after a call on a curve of exactly one point (y, c) the output is exactly
\* `length` copies of c, whatever y is.
C9_SinglePointConstant ==
    (Called /\ Len(given) = 1) =>
        /\ Len(output) = length
        /\ \A y \in 1..length : output[y] = Num(PCost(given[1]))

\* C9 witness: a call on a single point whose year differs from its cost and lies
\* inside the output has returned a non-empty output.
C9_Witness ==
    /\ Called
    /\ Len(given) = 1
    /\ PYear(given[1]) # PCost(given[1])
    /\ PYear(given[1]) > 0
    /\ PYear(given[1]) < length

\* C10: after a call on any curve the output holds exactly `length` values, one
\* per year index 0 .. length-1; length 0 gives the empty sequence.
C10_OutputLength ==
    Called =>
        /\ DOMAIN output = 1..length
        /\ Len(output) = length
        /\ (length = 0 => output = <<>>)

\* C10 witness: a call on an unsorted curve with a duplicated year has returned a
\* non-empty output.
C10_Witness ==
    /\ Called
    /\ Len(given) = 3
    /\ ~SortedByYear(given)
    /\ ~DistinctYears(given)
    /\ length > 0
    /\ Len(output) = length

-----------------------------------------------------------------------------
(* Properties of the projection.  They are stated on `input`, the Settings  *)
(* as the caller built them, with each unset field resolved to its default. *)

Projected == calls >= 1

InCost == Default(input.cost, 0)
InDownPayment == Default(input.downPayment, 0)
InLoanRate == Default(input.loanRate, DefaultLoanRate)
InLoanYears == Default(input.loanYears, DefaultLoanYears)
InExpectedLife == Default(input.expectedLife, DefaultExpectedLife)
InPermitCost == Default(input.yearlyPermitCost, DefaultPermitCost)
InInsuranceCosts ==
    interpolatePoints(Default(input.insurancePoints, DefaultInsurancePoints(InExpectedLife)),
                      InExpectedLife)
InMaintenanceCosts ==
    interpolatePoints(Default(input.maintenancePoints, DefaultMaintenancePoints), InExpectedLife)
InYearlyLoanPayment == YearlyLoanPayment(InCost, InDownPayment, InLoanRate, InLoanYears)

\* The running costs of year i (0-based): insurance + permit + maintenance.
RunningCosts(i) ==
    Add(Add(InInsuranceCosts[i + 1], Num(InPermitCost)), InMaintenanceCosts[i + 1])

\* C1: after project, yearlyBreakdown has exactly expectedLife entries, and entry i
\* is insuranceCosts[i] + yearlyPermitCost + maintenanceCosts[i], plus
\* yearlyLoanPayment if and only if i < loanYears (so with loanYears > expectedLife
\* every one of the expectedLife entries carries the loan payment, and no more).
C1_YearlyBreakdown ==
    Projected =>
        /\ DOMAIN result.yearlyBreakdown = 1..InExpectedLife
        /\ \A i \in 0..(InExpectedLife - 1) :
              result.yearlyBreakdown[i + 1] =
                  IF i < InLoanYears THEN Add(RunningCosts(i), InYearlyLoanPayment)
                  ELSE RunningCosts(i)

\* C1 witness: a projection over three years with a one-year loan at a non-zero
\* rate: year 0 carries a finite, non-zero loan payment and years 1 and 2 do not.
C1_Witness ==
    /\ Projected
    /\ InExpectedLife = 3
    /\ InLoanYears = 1
    /\ IsFinite(InYearlyLoanPayment)
    /\ ~IsZero(InYearlyLoanPayment)
    /\ result.yearlyBreakdown[1] = Add(RunningCosts(0), InYearlyLoanPayment)
    /\ result.yearlyBreakdown[2] = RunningCosts(1)
    /\ result.yearlyBreakdown[3] = RunningCosts(2)

\* C2: after project, total is the sum of the yearlyBreakdown entries plus
\* downPayment, added once.
C2_TotalIncludesDownPayment ==
    Projected =>
        result.total = Add(SumSeq(result.yearlyBreakdown), Num(InDownPayment))

\* C3: after project with loanRate = 0 and loanYears > 0, every year i < loanYears
\* carries the yearly loan payment (cost - downPayment) / loanYears, a finite number.
C3_ZeroRateStraightLine ==
    (Projected /\ IsZero(InLoanRate) /\ InLoanYears > 0) =>
        \A i \in 0..(InExpectedLife - 1) :
            i < InLoanYears =>
                /\ IsFinite(result.yearlyBreakdown[i + 1])
                /\ result.yearlyBreakdown[i + 1] =
                      Add(RunningCosts(i),
                          Div(Num(InCost - InDownPayment), Num(InLoanYears)))

-----------------------------------------------------------------------------
(* Further properties of the interpolator.                                 *)

\* a <= b on finite numbers (denominators are positive).
Leq(a, b) == a.n * b.d <= b.n * a.d

\* Every reordering of the sequence ps.
Reorderings(ps) ==
    {[i \in 1..Len(ps) |-> ps[p[i]]] : p \in Permutations(1..Len(ps))}

\* C11: a call leaves the caller's point sequence unchanged: it holds the same
\* points in the same order as before the call, also when the points were
\* supplied out of year order.
C11_CallerPointsUnchanged ==
    Called => points = given

\* C12: for a curve whose years are pairwise distinct, the output of the call is
\* the output interpolate gives for every reordering of the same points.
C12_PermutationInvariant ==
    (Called /\ DistinctYears(given)) =>
        \A q \in Reorderings(given) : interpolatePoints(q, length) = output

\* C12 witness: a call on three points with distinct years, given out of year
\* order, has produced an output with two different values in it.
C12_Witness ==
    /\ Called
    /\ Len(given) = 3
    /\ DistinctYears(given)
    /\ ~SortedByYear(given)
    /\ \E y, z \in 1..Len(output) : output[y] # output[z]

\* C15: for a curve of two points (a, x), (b, y) with a < b, the output over the
\* indices a..b is non-decreasing when x <= y and non-increasing when x >= y.
C15_TwoPointMonotone ==
    (Called /\ Len(given) = 2 /\ DistinctYears(given)) =>
        LET a == PYear(points[1])
            b == PYear(points[2])
            x == PCost(points[1])
            y == PCost(points[2])
            span == {i \in a..b : i < length}
        IN  /\ a = MinOf(Years(given))
            /\ b = MaxOf(Years(given))
            /\ \A i, j \in span :
                  i <= j =>
                      /\ IsFinite(output[i + 1]) /\ IsFinite(output[j + 1])
                      /\ (x <= y => Leq(output[i + 1], output[j + 1]))
                      /\ (x >= y => Leq(output[j + 1], output[i + 1]))

\* C15 witness: a call on two points two or more years apart with a rising cost,
\* given in falling year order, has produced a strictly rising run over a..b.
C15_Witness ==
    /\ Called
    /\ Len(given) = 2
    /\ PYear(given[1]) >= PYear(given[2]) + 2
    /\ PCost(given[2]) < PCost(given[1])
    /\ length > PYear(given[1])
    /\ \A i \in PYear(given[2])..(PYear(given[1]) - 1) :
          Leq(output[i + 1], output[i + 2]) /\ output[i + 1] # output[i + 2]

\* C19: no output is the result of a division by a zero year difference: every
\* output of a call on two or more points is finite; where the selected left and
\* right points have the same year the output is left.cost; and two points with
\* identical years give a flat sequence at the cost of the first.
C19_NoZeroYearDivision ==
    (Called /\ Len(given) >= 2) =>
        /\ \A y \in 0..(length - 1) :
              /\ IsFinite(output[y + 1])
              /\ LET lr == SurroundingPoints(points, y)
                 IN  PYear(lr[1]) = PYear(lr[2]) => output[y + 1] = Num(PCost(lr[1]))
        /\ (Len(given) = 2 /\ PYear(given[1]) = PYear(given[2])) =>
              \A y \in 0..(length - 1) : output[y + 1] = Num(PCost(given[1]))

\* C19 witness: a call on two points with the same year and different costs has
\* produced a non-empty flat sequence at the first point's cost.
C19_Witness ==
    /\ Called
    /\ Len(given) = 2
    /\ PYear(given[1]) = PYear(given[2])
    /\ PCost(given[1]) # PCost(given[2])
    /\ length > 0
    /\ \A y \in 1..length : output[y] = Num(PCost(given[1]))

-----------------------------------------------------------------------------
(* Further properties of the projection.                                   *)

\* C13: a second call of project on the same settings returns the yearlyBreakdown
\* and the total the first call returned, also when the curves were supplied out
\* of year order: nothing the first call leaves behind changes the second result.
C13_RepeatableProjection ==
    [][Projected => result' = result]_vars

\* C13 witness: project has been called twice on settings whose insurance curve
\* was supplied out of year order with a duplicated year, over a non-empty life.
C13_Witness ==
    /\ calls = 2
    /\ IsSet(input.insurancePoints)
    /\ ~SortedByYear(input.insurancePoints[1])
    /\ ~DistinctYears(input.insurancePoints[1])
    /\ settings # input
    /\ InExpectedLife > 0
    /\ Len(result.yearlyBreakdown) = InExpectedLife

\* C14: when the insurance curve is unset, project charges insurance along the
\* line from (0, 14000) to (L - 1, 6500), L the resolved expectedLife (the value
\* supplied, 20 when unset): entry i of yearlyBreakdown is that line at i, plus
\* the permit, the maintenance and, for i < loanYears, the loan payment.
C14_DefaultInsuranceCurve ==
    (Projected /\ ~IsSet(input.insurancePoints)) =>
        \A i \in 0..(InExpectedLife - 1) :
            LET insurance == OnLine(<<0, DefaultInsuranceStart>>,
                                    <<InExpectedLife - 1, DefaultInsuranceEnd>>, i)
                yearCost == Add(Add(insurance, Num(InPermitCost)), InMaintenanceCosts[i + 1])
            IN  result.yearlyBreakdown[i + 1] =
                    IF i < InLoanYears THEN Add(yearCost, InYearlyLoanPayment) ELSE yearCost

\* C14 witness: a projection over a supplied life of three years with no insurance
\* curve and no loan: year 0 carries 14000 and year 2, the last, 6500.
C14_Witness ==
    /\ Projected
    /\ ~IsSet(input.insurancePoints)
    /\ input.expectedLife = Some(3)
    /\ InLoanYears = 0
    /\ result.yearlyBreakdown[1] =
          Add(Add(Num(DefaultInsuranceStart), Num(InPermitCost)), InMaintenanceCosts[1])
    /\ result.yearlyBreakdown[3] =
          Add(Add(Num(DefaultInsuranceEnd), Num(InPermitCost)), InMaintenanceCosts[3])

\* C16: project returns no breakdown for settings with expectedLife <= 0,
\* loanYears < 0 or loanRate < 0: a call that has returned had expectedLife > 0,
\* loanYears >= 0 and loanRate >= 0.
C16_RejectsInvalidSettings ==
    Projected =>
        /\ InExpectedLife > 0
        /\ InLoanYears >= 0
        /\ Sign(InLoanRate) >= 0

-----------------------------------------------------------------------------
(* Properties of the command line.                                         *)

Simulated == run.cmd = "simulate"

\* A stored text that is not a list of [year, cost] pairs.
Malformed(column) == IsSet(column) /\ column[1].json # "pairs"

\* C17: when simulate loads a stored model whose insurance_points or
\* maintenance_points is not a list of [year, cost] pairs, and the command line
\* gives no curve, the run is not aborted: for each such stream a warning is
\* shown and the default curve is used (settings holds no curve for it), and the
\* projection completes.
C17_MalformedCurveFallsBack ==
    ( /\ Simulated
      /\ IsSet(run.model)
      /\ ~IsSet(run.args.insurance)
      /\ ~IsSet(run.args.maintenance)
      /\ Malformed(run.model[1].insurance_points) \/ Malformed(run.model[1].maintenance_points) )
    =>  /\ run.status = "done"
        /\ Malformed(run.model[1].insurance_points) =>
              "insurance" \in run.warnings /\ ~IsSet(run.settings.insurancePoints)
        /\ Malformed(run.model[1].maintenance_points) =>
              "maintenance" \in run.warnings /\ ~IsSet(run.settings.maintenancePoints)
        /\ Len(run.result.yearlyBreakdown) = run.args.expectedLife[1]

\* The value the projection is to use for an option: the one of the command line
\* when given, the stored one otherwise, the default when there is neither.
Precedence(option, stored, dflt) ==
    IF IsSet(option) THEN option[1] ELSE IF IsSet(stored) THEN stored[1] ELSE dflt

\* C18: a simulate with --id that has completed projected with, for each of
\* --permitCost, --insurance and --maintenance, the value of the command line
\* when the option was given, and the value stored with the model otherwise (the
\* default when the model stores none, a stored permit cost of 0 counting as none).
C18_OptionsOverrideStored ==
    (Simulated /\ run.status = "done" /\ IsSet(run.model)) =>
        LET o == run.args
            model == run.model[1]
            storedPermit == IF model.yearly_permit_cost = Some(0) THEN Undefined
                            ELSE model.yearly_permit_cost
            L == o.expectedLife[1]
            permit == Precedence(o.permitCost, storedPermit, DefaultPermitCost)
            insurance == Precedence(o.insurance, model.insurance_points,
                                    PairsText(DefaultInsurancePoints(L))).pts
            maintenance == Precedence(o.maintenance, model.maintenance_points,
                                      PairsText(DefaultMaintenancePoints)).pts
        IN  /\ DOMAIN run.result.yearlyBreakdown = 1..L
            /\ \A i \in 0..(L - 1) :
                  run.result.yearlyBreakdown[i + 1] =
                      Add(Add(interpolatePoints(insurance, L)[i + 1], Num(permit)),
                          interpolatePoints(maintenance, L)[i + 1])

\* C18 witness: a simulate of a model that stores a permit cost and two curves,
\* with all three options given, has completed with a first year that is not the
\* first year of the stored values.
C18_Witness ==
    /\ Simulated
    /\ run.status = "done"
    /\ IsSet(run.model)
    /\ IsSet(run.model[1].yearly_permit_cost) /\ run.model[1].yearly_permit_cost # Some(0)
    /\ IsSet(run.model[1].insurance_points) /\ ~Malformed(run.model[1].insurance_points)
    /\ IsSet(run.model[1].maintenance_points) /\ ~Malformed(run.model[1].maintenance_points)
    /\ IsSet(run.args.permitCost) /\ IsSet(run.args.insurance) /\ IsSet(run.args.maintenance)
    /\ run.result.yearlyBreakdown[1] #
          Add(Add(interpolatePoints(run.model[1].insurance_points[1].pts, 1)[1],
                  Num(run.model[1].yearly_permit_cost[1])),
              interpolatePoints(run.model[1].maintenance_points[1].pts, 1)[1])

\* C20: the catalog holds at most one row per (brand, name, trim); an identity
\* has a row exactly when an add was carried out for it, and the cost of that
\* row is the cost of the most recent such add.
C20_OneRowPerIdentity ==
    /\ \A r1, r2 \in catalog : Identity(r1) = Identity(r2) => r1 = r2
    /\ \A identity \in Identities :
          LET rows == {row \in catalog : Identity(row) = identity}
          IN  IF IsSet(lastAdd[identity])
              THEN rows # {} /\ \A row \in rows : row.cost = lastAdd[identity][1]
              ELSE rows = {}

\* C20 witness: with both identities in the catalog, an add for one of them has
\* replaced a row of a different cost.
C20_Witness ==
    /\ run.cmd = "add"
    /\ run.status = "done"
    /\ Cardinality(catalog) = Cardinality(Identities)
    /\ IsSet(run.replaced)
    /\ run.replaced # lastAdd[run.args]
    /\ \E row \in catalog : Identity(row) = run.args /\ Some(row.cost) = lastAdd[run.args]

-----------------------------------------------------------------------------
(* The projection compared across two Settings.                            *)

\* The Settings that differ from `input` in cost, downPayment and loanRate at
\* most, with no cost, no down payment and a loanRate of 0: the one Settings all
\* those that differ in these three fields only have in common.
LoanFree == [input EXCEPT !.cost = Undefined, !.downPayment = Undefined,
                          !.loanRate = Some(Num(0))]

\* C21: project yields, at every index i >= loanYears, the yearlyBreakdown entry
\* it yields for the Settings with the loan inputs cost, downPayment and loanRate
\* taken away; hence any two Settings that differ only in cost, downPayment and
\* loanRate, which share those Settings, have the same entries at every index
\* i >= loanYears, also where the loan payment is NaN.
C21_PostLoanYearsIndependent ==
    Projected =>
        LET breakdown == calculateCostOfOwnership(variant, LoanFree).yearlyBreakdown
        IN  /\ DOMAIN breakdown = DOMAIN result.yearlyBreakdown
            /\ \A i \in 0..(InExpectedLife - 1) :
                  i >= InLoanYears => breakdown[i + 1] = result.yearlyBreakdown[i + 1]

\* C21 witness: a projection over three years with a one-year loan and a finite,
\* non-zero payment: without the loan inputs year 0 is NaN (loanRate 0), and
\* years 1 and 2 are what they are with them.
C21_Witness ==
    /\ Projected
    /\ InExpectedLife = 3
    /\ InLoanYears = 1
    /\ IsFinite(InYearlyLoanPayment)
    /\ ~IsZero(InYearlyLoanPayment)
    /\ IsFinite(result.yearlyBreakdown[1])
    /\ LET breakdown == calculateCostOfOwnership(variant, LoanFree).yearlyBreakdown
       IN  /\ ~IsFinite(breakdown[1])
           /\ breakdown[2] = result.yearlyBreakdown[2]
           /\ breakdown[3] = result.yearlyBreakdown[3]

====
